---- MODULE Spec2Model ----
(***************************************************************************)
(* Separable image convolution on bands, and its std::thread fork-join     *)
(* drivers (openMVG/image/image_convolution_cpp_thread.hpp).               *)
(*                                                                         *)
(* An image is a record [rows, cols, data] whose data is the row-major     *)
(* storage, a function on 0 .. rows*cols-1.  Tpixel is instantiated at a   *)
(* floating type in which every sum of the bounded inputs below is exact,  *)
(* so the accumulator and the stored pixel hold the same number.           *)
(***************************************************************************)
EXTENDS Integers, Sequences, FiniteSets, TLC

VARIABLES
  img,          \* the image handed to the call (input, or input/output in place)
  out,          \* the output image of a copy-mode call
  kernel,       \* the kernel, a sequence of weights: kernel(k) is kernel[k+1]
  border_mgmt,  \* BORDER_COPY or BORDER_CROP
  op,           \* which of the eight entry points is called: [dir, mode, threaded]
  pc,           \* position of the calling thread
  nb_thread,    \* value read from std::thread::hardware_concurrency()
  range,        \* the boundary table filled by SplitRange
  threads,      \* std::vector<std::thread>: one activation record per spawned worker
  i,            \* loop index of the spawn loop, then of the join loop
  start_col,    \* chained band start of the vertical drivers
  img0,         \* history: img before the call
  out0,         \* history: out when the first band starts (after the resize)
  writes,       \* history: per destination element, the workers that wrote it, in order
  resizes,      \* history: per resize of out, the number of workers spawned by then
  reads         \* history: per element of img, the workers that read it

vars == << img, out, kernel, border_mgmt, op, pc, nb_thread, range, threads, i,
           start_col, img0, out0, writes, resizes, reads >>

---------------------------------------------------------------------------
(* Bounds of the model. *)
MaxRows == 3
MaxCols == 5
MaxHalf == 1
MaxThreads == 3

(* Width of the unrolled block of the vertical BORDER_COPY copy pass. *)
Unroll == 4

BORDER_COPY == "BORDER_COPY"
BORDER_CROP == "BORDER_CROP"

Max(a, b) == IF a > b THEN a ELSE b
Min(a, b) == IF a < b THEN a ELSE b

---------------------------------------------------------------------------
(* The image container. *)

Size(im) == im.rows * im.cols

\* img.coeffRef(row, col) / img(row, col): row-major element access
At(im, row, col) == im.data[row * im.cols + col]

\* im.resize(width, height): the dimensions change, the content is whatever
\* the new storage holds
ResizeTo(im, width, height, junk) ==
  [rows |-> height, cols |-> width, data |-> [e \in 0 .. height * width - 1 |-> junk]]

\* kernel(k), 0-based as in the source
K(kern, k) == kern[k + 1]

---------------------------------------------------------------------------
(* Accumulation: sum over k in 0 .. n-1 of line[base + k] * kernel(k). *)
RECURSIVE Acc(_, _, _, _)
Acc(line, kern, base, n) ==
  IF n = 0 THEN 0
  ELSE Acc(line, kern, base, n - 1) + line[base + n - 1] * K(kern, n - 1)

\* conv_buffer_(buffer, kernel, rsize, ksize): buffer[i] becomes the sum of
\* buffer[i+j] * kernel[j]; entry i only reads entries at or after i, so every
\* sum is over the values the buffer held on entry.
conv_buffer_(buffer, kern, rsize, ksize) ==
  [e \in DOMAIN buffer |-> IF e < rsize THEN Acc(buffer, kern, e, ksize) ELSE buffer[e]]

\* std::vector<pix_t> line(n): n value-initialised pixels
NewLine(n) == [e \in 0 .. n - 1 |-> 0]

---------------------------------------------------------------------------
(* Stores.  A band step's stores are a sequence of << flat index, value >>  *)
(* pairs in program order.                                                 *)

RECURSIVE ApplyWrites(_, _)
ApplyWrites(im, ws) ==
  IF ws = << >> THEN im
  ELSE ApplyWrites([im EXCEPT !.data[Head(ws)[1]] = Head(ws)[2]], Tail(ws))

RECURSIVE LogWrites(_, _, _)
LogWrites(log, ws, w) ==
  IF ws = << >> THEN log
  ELSE LogWrites([log EXCEPT ![Head(ws)[1]] = Append(@, w)], Tail(ws), w)

---------------------------------------------------------------------------
(* Horizontal pass, one row (copy and in-place variants share the code).   *)

\* mutant of HPadLine: the pad after the row replicates the first pixel
HPadLineFirst(line, im, row, half) ==
  [e \in DOMAIN line |->
     IF e < half THEN At(im, row, 0)
     ELSE IF e < half + im.cols THEN im.data[row * im.cols + (e - half)]
     ELSE IF e < half + im.cols + half THEN At(im, row, 0)
     ELSE line[e]]

\* pad before, memcpy of the row, pad after
HPadLine(line, im, row, half) ==
  [e \in DOMAIN line |->
     IF e < half THEN At(im, row, 0)
     ELSE IF e < half + im.cols THEN im.data[row * im.cols + (e - half)]
     ELSE IF e < half + im.cols + half THEN At(im, row, im.cols - 1)
     ELSE line[e]]

\* BORDER_CROP: memcpy of the row into line
HCopyLine(line, im, row) ==
  [e \in DOMAIN line |-> IF e < im.cols THEN im.data[row * im.cols + e] ELSE line[e]]

\* memcpy(dst.data() + row * cols, &line[0], sizeof(pix_t) * cols)
HStoreLine(line, row, cols) ==
  [j \in 1 .. cols |-> << row * cols + (j - 1), line[j - 1] >>]

\* mutant of HCropStore: the column loop stops one column early
HCropStoreShort(line, kern, dst, row, cols) ==
  LET half == Len(kern) \div 2
      n    == Max(0, cols - half - half - 1)
  IN  [j \in 1 .. n |->
         << row * dst.cols + (half + j - 1), Acc(line, kern, j - 1, Len(kern)) >>]

\* the column loop of HCropStoreUnbuffered: each sum is taken from cur, the
\* image with the stores made so far
RECURSIVE HCropFromImage(_, _, _, _)
HCropFromImage(cur, kern, row, col) ==
  LET half == Len(kern) \div 2 IN
  IF col >= cur.cols - half THEN << >>
  ELSE LET v == Acc(cur.data, kern, row * cur.cols + col - half, Len(kern))
       IN  << << row * cur.cols + col, v >> >>
           \o HCropFromImage([cur EXCEPT !.data[row * cur.cols + col] = v],
                             kern, row, col + 1)

\* mutant of HCropStore: the sums are taken from the image being stored into
\* instead of from the working line
HCropStoreUnbuffered(line, kern, dst, row, cols) ==
  HCropFromImage(dst, kern, row, Len(kern) \div 2)

\* BORDER_CROP: for col in [half, cols - half): dst.coeffRef(row, col) = sum
HCropStore(line, kern, dst, row, cols) ==
  LET half == Len(kern) \div 2
      n    == Max(0, cols - half - half)
  IN  [j \in 1 .. n |->
         << row * dst.cols + (half + j - 1), Acc(line, kern, j - 1, Len(kern)) >>]

---------------------------------------------------------------------------
(* Vertical pass, copy mode, BORDER_COPY: one row of a band of columns.    *)

\* mutant of InputIndex: the upper clamp is rows instead of rows - 1
InputIndexUpper(row, k, rows, half) == Min(rows, Max(0, row - half + k))

\* input_index[k] for the current row: clamped to [0, rows - 1]
InputIndex(row, k, rows, half) == Min(rows - 1, Max(0, row - half + k))

\* sum over k of img.coeffRef(input_index[k], col) * kernel(k)
RECURSIVE ColumnSum(_, _, _, _, _)
ColumnSum(im, kern, row, col, n) ==
  IF n = 0 THEN 0
  ELSE ColumnSum(im, kern, row, col, n - 1)
       + At(im, InputIndex(row, n - 1, im.rows, Len(kern) \div 2), col) * K(kern, n - 1)

\* mutant of VRowStore: the unrolled loop advances by three columns
RECURSIVE VRowStoreStep3(_, _, _, _, _, _)
VRowStoreStep3(im, kern, dst, row, col, end_col) ==
  IF col < end_col - Unroll
  THEN [j \in 1 .. Unroll |->
          << row * dst.cols + (col + j - 1), ColumnSum(im, kern, row, col + j - 1, Len(kern)) >>]
       \o VRowStoreStep3(im, kern, dst, row, col + Unroll - 1, end_col)
  ELSE IF col < end_col
  THEN << << row * dst.cols + col, ColumnSum(im, kern, row, col, Len(kern)) >> >>
       \o VRowStoreStep3(im, kern, dst, row, col + 1, end_col)
  ELSE << >>

\* the unrolled block while col < end_col - 4, then the last columns one by one
RECURSIVE VRowStore(_, _, _, _, _, _)
VRowStore(im, kern, dst, row, col, end_col) ==
  IF col < end_col - Unroll
  THEN [j \in 1 .. Unroll |->
          << row * dst.cols + (col + j - 1), ColumnSum(im, kern, row, col + j - 1, Len(kern)) >>]
       \o VRowStore(im, kern, dst, row, col + Unroll, end_col)
  ELSE IF col < end_col
  THEN << << row * dst.cols + col, ColumnSum(im, kern, row, col, Len(kern)) >> >>
       \o VRowStore(im, kern, dst, row, col + 1, end_col)
  ELSE << >>

---------------------------------------------------------------------------
(* Vertical pass, one column (BORDER_CROP of both modes, in-place COPY).   *)

\* line[k] = img(k, col)
VCopyLine(line, im, col) ==
  [e \in DOMAIN line |-> IF e < im.rows THEN At(im, e, col) ELSE line[e]]

\* mutant of VPadLine: the pad after the column replicates img(0, col)
VPadLineFirst(line, im, col, half) ==
  [e \in DOMAIN line |->
     IF e < half THEN At(im, 0, col)
     ELSE IF e < half + im.rows THEN At(im, e - half, col)
     ELSE IF e < half + im.rows + half THEN At(im, 0, col)
     ELSE line[e]]

\* in place, BORDER_COPY: pad with img(0, col), the column, pad with img(nb_row-1, col)
VPadLine(line, im, col, half) ==
  [e \in DOMAIN line |->
     IF e < half THEN At(im, 0, col)
     ELSE IF e < half + im.rows THEN At(im, e - half, col)
     ELSE IF e < half + im.rows + half THEN At(im, im.rows - 1, col)
     ELSE line[e]]

\* mutant of VStoreLine: every row receives line[0]
VStoreLineFirst(line, dst, col, nb_row) ==
  [j \in 1 .. nb_row |-> << (j - 1) * dst.cols + col, line[0] >>]

\* in place, BORDER_COPY: img(row, col) = line[row] for every row
VStoreLine(line, dst, col, nb_row) ==
  [j \in 1 .. nb_row |-> << (j - 1) * dst.cols + col, line[j - 1] >>]

\* BORDER_CROP: for row in [half, rows - half): dst(row, col) = sum
VCropStore(line, kern, dst, col, rows) ==
  LET half == Len(kern) \div 2
      n    == Max(0, rows - half - half)
  IN  [j \in 1 .. n |->
         << (half + j - 1) * dst.cols + col, Acc(line, kern, j - 1, Len(kern)) >>]

---------------------------------------------------------------------------
(* The four band functions, as activations stepped line by line.           *)
(* An activation is [st, start, end, pos, phase, line]: pos is the outer   *)
(* loop variable, line the private working buffer.                         *)

\* vertical, copy mode, BORDER_COPY: the outer loop runs over all rows
IsRowPass(o, border) == o.dir = "V" /\ o.mode = "copy" /\ border = BORDER_COPY

\* size of the working line the band function allocates
LineSize(o, border, im, kern) ==
  IF IsRowPass(o, border) THEN 0
  ELSE (IF o.dir = "H" THEN im.cols ELSE im.rows)
       + (IF border = BORDER_COPY THEN Len(kern) ELSE 0)

\* mutant of BandEnter: the outer loop starts at 0 instead of start
BandEnterFromZero(o, border, im, kern, start, end) ==
  [st    |-> "run",
   start |-> start,
   end   |-> end,
   pos   |-> 0,
   phase |-> IF IsRowPass(o, border) THEN "row" ELSE "load",
   line  |-> NewLine(LineSize(o, border, im, kern))]

\* entry of a band function over [start, end)
BandEnter(o, border, im, kern, start, end) ==
  [st    |-> "run",
   start |-> start,
   end   |-> end,
   pos   |-> IF IsRowPass(o, border) THEN 0 ELSE start,
   phase |-> IF IsRowPass(o, border) THEN "row" ELSE "load",
   line  |-> NewLine(LineSize(o, border, im, kern))]

\* the outer loop's condition is false
BandDone(o, border, im, a) ==
  IF IsRowPass(o, border) THEN a.pos >= im.rows ELSE a.pos >= a.end

\* "Copy line" (and, under BORDER_COPY, conv_buffer_ on the private line)
LoadLine(o, border, line, src, kern, pos) ==
  LET half == Len(kern) \div 2 IN
  IF o.dir = "H"
  THEN IF border = BORDER_COPY
       THEN conv_buffer_(HPadLine(line, src, pos, half), kern, src.cols, Len(kern))
       ELSE HCopyLine(line, src, pos)
  ELSE IF border = BORDER_COPY
       THEN conv_buffer_(VPadLine(line, src, pos, half), kern, src.rows, Len(kern))
       ELSE VCopyLine(line, src, pos)

\* the stores of one line, in program order
StoreLine(o, border, line, kern, im, dst, pos) ==
  IF o.dir = "H"
  THEN IF border = BORDER_COPY
       THEN HStoreLine(line, pos, im.cols)
       ELSE HCropStore(line, kern, dst, pos, im.cols)
  ELSE IF border = BORDER_COPY
       THEN VStoreLine(line, dst, pos, im.rows)
       ELSE VCropStore(line, kern, dst, pos, im.rows)

\* the buffer the band function stores into
Dest == IF op.mode = "copy" THEN out ELSE img

\* the band function over [pos, end) run to completion by one thread
RECURSIVE BandRun(_, _, _, _, _, _, _, _)
BandRun(o, border, im, dst, kern, a, pos, end) ==
  IF IsRowPass(o, border)
  THEN IF pos >= im.rows THEN dst
       ELSE BandRun(o, border, im,
                    ApplyWrites(dst, VRowStore(im, kern, dst, pos, a.start, a.end)),
                    kern, a, pos + 1, end)
  ELSE IF pos >= end THEN dst
       ELSE LET src  == IF o.mode = "copy" THEN im ELSE dst
                line == LoadLine(o, border, a.line, src, kern, pos)
            IN  BandRun(o, border, im,
                        ApplyWrites(dst, StoreLine(o, border, line, kern, src, dst, pos)),
                        kern, [a EXCEPT !.line = line], pos + 1, end)

\* result of a single call of the band function over [start, end)
BandResult(o, border, im, dst, kern, start, end) ==
  LET a == BandEnter(o, border, im, kern, start, end)
  IN  BandRun(o, border, im, dst, kern, a, a.pos, end)

---------------------------------------------------------------------------
(* The elements and indices a line's code touches.  Image elements are     *)
(* << row, col >> pairs, as handed to coeffRef / operator().               *)

\* columns col .. end_col - 1 as the vertical BORDER_COPY copy pass visits
\* them: blocks of four while col < end_col - 4, then one by one
RECURSIVE RowCols(_, _)
RowCols(col, end_col) ==
  IF col < end_col - Unroll
  THEN [j \in 1 .. Unroll |-> col + j - 1] \o RowCols(col + Unroll, end_col)
  ELSE IF col < end_col THEN << col >> \o RowCols(col + 1, end_col)
  ELSE << >>

\* the input_index table of one row
InputIndices(row, kern, rows) ==
  [k \in 1 .. Len(kern) |-> InputIndex(row, k - 1, rows, Len(kern) \div 2)]

\* img.coeffRef(input_index[k], col + u) of one row of a band of columns
RowReadCoords(im, kern, row, first_col, end_col) ==
  LET cs == RowCols(first_col, end_col)
      ix == InputIndices(row, kern, im.rows)
  IN  [n \in 1 .. Len(cs) * Len(ix) |->
         << ix[((n - 1) % Len(ix)) + 1], cs[((n - 1) \div Len(ix)) + 1] >>]

\* out.coeffRef(row, col + u) of one row of a band of columns
RowWriteCoords(row, first_col, end_col) ==
  LET cs == RowCols(first_col, end_col)
  IN  [n \in 1 .. Len(cs) |-> << row, cs[n] >>]

\* the image elements "Copy line" reads, in program order
LoadCoords(o, border, im, kern, pos) ==
  LET half == Len(kern) \div 2 IN
  IF o.dir = "H"
  THEN IF border = BORDER_COPY
       THEN [k \in 1 .. half |-> << pos, 0 >>]
            \o [j \in 1 .. im.cols |-> << pos, j - 1 >>]
            \o [k \in 1 .. half |-> << pos, im.cols - 1 >>]
       ELSE [j \in 1 .. im.cols |-> << pos, j - 1 >>]
  ELSE IF border = BORDER_COPY
       THEN [k \in 1 .. half |-> << 0, pos >>]
            \o [j \in 1 .. im.rows |-> << j - 1, pos >>]
            \o [k \in 1 .. half |-> << im.rows - 1, pos >>]
       ELSE [j \in 1 .. im.rows |-> << j - 1, pos >>]

\* the destination elements the stores of one line address, in program order
StoreCoords(o, border, im, kern, pos) ==
  LET half == Len(kern) \div 2 IN
  IF o.dir = "H"
  THEN IF border = BORDER_COPY
       THEN [j \in 1 .. im.cols |-> << pos, j - 1 >>]
       ELSE [j \in 1 .. Max(0, im.cols - half - half) |-> << pos, half + j - 1 >>]
  ELSE IF border = BORDER_COPY
       THEN [j \in 1 .. im.rows |-> << j - 1, pos >>]
       ELSE [j \in 1 .. Max(0, im.rows - half - half) |-> << half + j - 1, pos >>]

\* indices into the padded line: the writes of pad before, line and pad after
PadIndices(extent, half) ==
  [k \in 1 .. half |-> k - 1]
  \o [j \in 1 .. extent |-> half + j - 1]
  \o [k \in 1 .. half |-> (k - 1) + half + extent]

\* indices into the padded line read by conv_buffer_: buffer[r + j] for each
\* of rsize outputs r and each of ksize weights j
ConvIndices(rsize, ksize) ==
  { r + j : r \in 0 .. rsize - 1, j \in 0 .. ksize - 1 }

\* indices into the BORDER_CROP line: the copy, then line[k + c - half]
CropIndices(extent, kern) ==
  LET half == Len(kern) \div 2 IN
  (0 .. extent - 1)
  \cup { k + c - half : k \in 0 .. Len(kern) - 1, c \in half .. extent - half - 1 }

\* record that worker w read the elements cs of im
LogReads(log, cs, im, w) ==
  LET S == { cs[n][1] * im.cols + cs[n][2] : n \in 1 .. Len(cs) }
  IN  [e \in DOMAIN log |-> IF e \in S THEN log[e] \cup { w } ELSE log[e]]

---------------------------------------------------------------------------
(* The band scheduler's collaborators.                                     *)

\* img.Width() and img.Height()
Width(im) == im.cols
Height(im) == im.rows

\* mutant of Extent: rows and columns exchanged
ExtentSwapped(o, im) == IF o.dir = "H" THEN im.cols ELSE im.rows

\* extent that is split: rows for the horizontal drivers, columns for the vertical
Extent(o, im) == IF o.dir = "H" THEN im.rows ELSE im.cols

\* SplitRange(range_start, range_end, nb_split, range): nb_split + 1 boundaries
\* of a near-equal partition; with nb_split = 0 the call is outside its contract
\* and either boundary table may come back.
SplitRange(range_start, range_end, nb_split) ==
  IF nb_split >= 1
  THEN { [j \in 1 .. nb_split + 1 |->
            range_start + ((j - 1) * (range_end - range_start)) \div nb_split] }
  ELSE { << range_start >>, << range_start, range_end >> }

---------------------------------------------------------------------------
(* Inputs.                                                                 *)

Shapes == { << 0, 0 >> } \cup ((1 .. MaxRows) \X (1 .. MaxCols))

\* two pixel patterns: 1, 2, 3, ... in storage order, and their squares
Pixel(p, e) == IF p = 1 THEN e + 1 ELSE (e + 1) * (e + 1)

Images ==
  { [rows |-> s[1], cols |-> s[2], data |-> [e \in 0 .. s[1] * s[2] - 1 |-> Pixel(p, e)]] :
      s \in Shapes, p \in 1 .. 2 }

\* odd kernels: all weights 1, and weights 1, 2, 3, ...
Kernels ==
  UNION { { [k \in 1 .. 2 * h + 1 |-> 1], [k \in 1 .. 2 * h + 1 |-> k] } : h \in 0 .. MaxHalf }

\* what storage holds that the call has not written
Junk == { -7 }

NoImage == [rows |-> 0, cols |-> 0, data |-> << >>]

Ops == [dir : {"H", "V"}, mode : {"copy", "inplace"}, threaded : BOOLEAN]

NoWrites(im) == [e \in 0 .. Size(im) - 1 |-> << >>]

Init ==
  /\ img \in Images
  /\ kernel \in Kernels
  /\ border_mgmt \in {BORDER_COPY, BORDER_CROP}
  /\ op \in Ops
  /\ out \in IF op.mode = "inplace" THEN { NoImage }
            ELSE IF op.threaded
                 THEN { NoImage, ResizeTo(NoImage, 2, 1, 0) }
                 ELSE { ResizeTo(NoImage, Width(img), Height(img), j) : j \in Junk }
  /\ pc = IF ~op.threaded THEN "band" ELSE IF op.mode = "copy" THEN "resize" ELSE "split"
  /\ nb_thread = 0
  /\ range = << >>
  /\ threads = << >>
  /\ i = 0
  /\ start_col = 0
  /\ img0 = img
  /\ out0 = out
  /\ writes = NoWrites(img)
  /\ resizes = << >>
  /\ reads = [e \in 0 .. Size(img) - 1 |-> { }]

---------------------------------------------------------------------------
(* The threaded drivers.                                                   *)

\* mutant of Resize: the driver goes on without resizing out
ResizeSkipped ==
  /\ pc = "resize"
  /\ pc' = "split"
  /\ UNCHANGED << img, out, kernel, border_mgmt, op, nb_thread, range, threads, i,
                  start_col, img0, out0, writes, resizes, reads >>

\* mutant of Resize: width and height exchanged
ResizeSwapped ==
  /\ pc = "resize"
  /\ \E j \in Junk : out' = ResizeTo(out, Height(img), Width(img), j)
  /\ out0' = out'
  /\ writes' = NoWrites(out')
  /\ resizes' = Append(resizes, Len(threads))
  /\ pc' = "split"
  /\ UNCHANGED << img, kernel, border_mgmt, op, nb_thread, range, threads, i,
                  start_col, img0, reads >>

\* out.resize( img.Width() , img.Height() )
Resize ==
  /\ pc = "resize"
  /\ \E j \in Junk : out' = ResizeTo(out, Width(img), Height(img), j)
  /\ out0' = out'
  /\ writes' = NoWrites(out')
  /\ resizes' = Append(resizes, Len(threads))
  /\ pc' = "split"
  /\ UNCHANGED << img, kernel, border_mgmt, op, nb_thread, range, threads, i,
                  start_col, img0, reads >>

\* nb_thread = hardware_concurrency(); SplitRange(0, extent, nb_thread, range);
\* in the vertical drivers, int start_col = range[0]
Split ==
  /\ pc = "split"
  /\ \E hc \in 0 .. MaxThreads :
       /\ nb_thread' = hc
       /\ range' \in SplitRange(0, Extent(op, img), hc)
  /\ start_col' = IF op.dir = "V" THEN range'[1] ELSE start_col
  /\ i' = 1
  /\ pc' = "spawn"
  /\ UNCHANGED << img, out, kernel, border_mgmt, op, threads, img0, out0, writes,
                  resizes, reads >>

\* mutant of SpawnBand: every band starts at range[0]
SpawnBandUnchained(o, r, k, sc) == << r[1], r[k + 1] >>

\* band handed to the thread made in iteration i of the spawn loop:
\* range[i-1] (the chained start_col in the vertical drivers) and range[i]
SpawnBand(o, r, k, sc) ==
  << IF o.dir = "H" THEN r[k] ELSE sc, r[k + 1] >>

\* threads.push_back( std::thread( fct , ... ) ), for i = 1 .. range.size() - 1
Spawn ==
  /\ pc = "spawn"
  /\ i < Len(range)
  /\ LET b == SpawnBand(op, range, i, start_col)
     IN  threads' = Append(threads, BandEnter(op, border_mgmt, img, kernel, b[1], b[2]))
  /\ start_col' = IF op.dir = "V" THEN range[i + 1] ELSE start_col
  /\ i' = i + 1
  /\ UNCHANGED << img, out, kernel, border_mgmt, op, pc, nb_thread, range, img0,
                  out0, writes, resizes, reads >>

\* the spawn loop ends; the join loop starts at i = 0
SpawnEnd ==
  /\ pc = "spawn"
  /\ i >= Len(range)
  /\ i' = 0
  /\ pc' = "join"
  /\ UNCHANGED << img, out, kernel, border_mgmt, op, nb_thread, range, threads,
                  start_col, img0, out0, writes, resizes, reads >>

\* mutant of JoinReady: the driver does not wait for the thread
JoinNoWait(a) == TRUE

\* threads[i].join() returns once that thread has finished
JoinReady(a) == a.st = "done"

Join ==
  /\ pc = "join"
  /\ i < Len(threads)
  /\ JoinReady(threads[i + 1])
  /\ i' = i + 1
  /\ UNCHANGED << img, out, kernel, border_mgmt, op, pc, nb_thread, range, threads,
                  start_col, img0, out0, writes, resizes, reads >>

\* the join loop ends and the driver returns
Return ==
  /\ pc = "join"
  /\ i >= Len(threads)
  /\ pc' = "returned"
  /\ UNCHANGED << img, out, kernel, border_mgmt, op, nb_thread, range, threads, i,
                  start_col, img0, out0, writes, resizes, reads >>

---------------------------------------------------------------------------
(* A direct call of a band function by the caller, over any [start, end)   *)
(* inside the extent; its activation is kept in threads[1].                *)

BandCall ==
  /\ pc = "band"
  /\ \E s \in 0 .. Extent(op, img) : \E e \in s .. Extent(op, img) :
       threads' = << BandEnter(op, border_mgmt, img, kernel, s, e) >>
  /\ pc' = "running"
  /\ UNCHANGED << img, out, kernel, border_mgmt, op, nb_thread, range, i, start_col,
                  img0, out0, writes, resizes, reads >>

BandReturn ==
  /\ pc = "running"
  /\ threads[1].st = "done"
  /\ pc' = "returned"
  /\ UNCHANGED << img, out, kernel, border_mgmt, op, nb_thread, range, threads, i,
                  start_col, img0, out0, writes, resizes, reads >>

---------------------------------------------------------------------------
(* Steps of activation w.                                                  *)

\* the activation after the stores of its line: next line, or the function returns
Advance(a) ==
  LET b == [a EXCEPT !.pos = a.pos + 1,
                     !.phase = IF a.phase = "row" THEN "row" ELSE "load"]
  IN  [b EXCEPT !.st = IF BandDone(op, border_mgmt, img, b) THEN "done" ELSE "run"]

\* mutant of Stores: every variant stores into img
StoresIntoImg(w, ws) ==
  /\ img' = ApplyWrites(img, ws)
  /\ out' = out
  /\ writes' = LogWrites(writes, ws, w)

\* store ws into the destination on behalf of w
Stores(w, ws) ==
  /\ IF op.mode = "copy"
     THEN out' = ApplyWrites(out, ws) /\ img' = img
     ELSE img' = ApplyWrites(img, ws) /\ out' = out
  /\ writes' = LogWrites(writes, ws, w)

\* copy the line into the working buffer
Load(w) ==
  /\ threads[w].st = "run"
  /\ threads[w].phase = "load"
  /\ ~BandDone(op, border_mgmt, img, threads[w])
  /\ threads' = [threads EXCEPT
                   ![w].line = LoadLine(op, border_mgmt, @, img, kernel, threads[w].pos),
                   ![w].phase = "store"]
  /\ reads' = LogReads(reads, LoadCoords(op, border_mgmt, img, kernel, threads[w].pos),
                       img, w)
  /\ UNCHANGED << img, out, kernel, border_mgmt, op, pc, nb_thread, range, i,
                  start_col, img0, out0, writes, resizes >>

\* store the line's results
Store(w) ==
  /\ threads[w].st = "run"
  /\ threads[w].phase = "store"
  /\ Stores(w, StoreLine(op, border_mgmt, threads[w].line, kernel, img, Dest,
                         threads[w].pos))
  /\ threads' = [threads EXCEPT ![w] = Advance(@)]
  /\ UNCHANGED << kernel, border_mgmt, op, pc, nb_thread, range, i, start_col, img0,
                  out0, resizes, reads >>

\* vertical copy BORDER_COPY: one row of the band
Row(w) ==
  /\ threads[w].st = "run"
  /\ threads[w].phase = "row"
  /\ ~BandDone(op, border_mgmt, img, threads[w])
  /\ Stores(w, VRowStore(img, kernel, out, threads[w].pos, threads[w].start,
                         threads[w].end))
  /\ reads' = LogReads(reads, RowReadCoords(img, kernel, threads[w].pos,
                                             threads[w].start, threads[w].end),
                       img, w)
  /\ threads' = [threads EXCEPT ![w] = Advance(@)]
  /\ UNCHANGED << kernel, border_mgmt, op, pc, nb_thread, range, i, start_col, img0,
                  out0, resizes >>

\* mutant of Finish: a band function whose loop has nothing to do never returns
FinishNever(w) ==
  /\ FALSE
  /\ UNCHANGED vars

\* the band is empty (or the image has no row): the function returns at once
Finish(w) ==
  /\ threads[w].st = "run"
  /\ BandDone(op, border_mgmt, img, threads[w])
  /\ threads' = [threads EXCEPT ![w].st = "done"]
  /\ UNCHANGED << img, out, kernel, border_mgmt, op, pc, nb_thread, range, i,
                  start_col, img0, out0, writes, resizes, reads >>

Next ==
  \/ Resize
  \/ Split
  \/ Spawn
  \/ SpawnEnd
  \/ Join
  \/ Return
  \/ BandCall
  \/ BandReturn
  \/ \E w \in 1 .. Len(threads) : Load(w)
  \/ \E w \in 1 .. Len(threads) : Store(w)
  \/ \E w \in 1 .. Len(threads) : Row(w)
  \/ \E w \in 1 .. Len(threads) : Finish(w)

Spec == Init /\ [][Next]_vars

\* The threaded drivers alone.  No branch of the code tests a pixel or a
\* weight, so one pixel pattern and the all-ones kernels give every control
\* path of a threaded call.
ThreadedInit ==
  /\ Init
  /\ op.threaded
  /\ \A e \in DOMAIN img.data : img.data[e] = Pixel(1, e)
  /\ \A k \in 1 .. Len(kernel) : kernel[k] = 1

ThreadedNext ==
  \/ Resize
  \/ Split
  \/ Spawn
  \/ SpawnEnd
  \/ Join
  \/ Return
  \/ \E w \in 1 .. Len(threads) : Load(w)
  \/ \E w \in 1 .. Len(threads) : Store(w)
  \/ \E w \in 1 .. Len(threads) : Row(w)
  \/ \E w \in 1 .. Len(threads) : Finish(w)

\* fair scheduling: while some thread of the call can take a step, one does
FairSpec == ThreadedInit /\ [][ThreadedNext]_vars /\ WF_vars(ThreadedNext)

---------------------------------------------------------------------------
(* Vocabulary of the properties.                                           *)

\* the destination as it was when the first band started
Dest0 == IF op.mode = "copy" THEN out0 ELSE img0

\* the extent N that the driver splits, read off the image
N == IF op.dir = "H" THEN img0.rows ELSE img0.cols

\* row and column of a flat index of the destination
RowOf(e) == e \div img0.cols
ColOf(e) == e % img0.cols

\* coordinate of e along the split direction
BandCoord(e) == IF op.dir = "H" THEN RowOf(e) ELSE ColOf(e)

Clamp(x, lo, hi) == Min(hi, Max(lo, x))

\* sum over k in 0 .. n-1 of kernel[k] * in[clamp(c - half + k, 0, E-1)], along
\* the row (horizontal) or the column (vertical) of the image im
RECURSIVE ClampedSum(_, _, _, _, _, _)
ClampedSum(im, kern, d, row, col, n) ==
  IF n = 0 THEN 0
  ELSE LET half == Len(kern) \div 2
           v == IF d = "H"
                THEN At(im, row, Clamp(col - half + (n - 1), 0, im.cols - 1))
                ELSE At(im, Clamp(row - half + (n - 1), 0, im.rows - 1), col)
       IN  ClampedSum(im, kern, d, row, col, n - 1) + K(kern, n - 1) * v

SpawnLoopOver == op.threaded /\ pc \in {"join", "returned"}

Band(w) == threads[w].start .. threads[w].end - 1

---------------------------------------------------------------------------
\* C1: parallelism transparency.  When a threaded driver that split the
\* extent for a worker count of at least 1 has returned, the destination is,
\* element by element, what a single call of the band function over [0, N)
\* leaves, whatever the interleaving of the workers was.
ParallelismTransparency ==
  (op.threaded /\ pc = "returned" /\ nb_thread >= 1)
    => Dest = BandResult(op, border_mgmt, img0, Dest0, kernel, 0, N)

\* a threaded in-place call with 2 .. N workers has returned and changed the buffer
TransparencyWitness ==
  /\ op.threaded /\ pc = "returned" /\ op.mode = "inplace"
  /\ nb_thread >= 2 /\ nb_thread <= N
  /\ img # img0

ForkJoinBarrier ==
  (op.threaded /\ pc = "returned")
    => \A w \in 1 .. Len(threads) : threads[w].st = "done"

\* a driver that spawned at least two workers which stored something has returned
BarrierWitness ==
  /\ op.threaded /\ pc = "returned" /\ Len(threads) >= 2
  /\ \E e \in DOMAIN writes : writes[e] # << >>

\* C5: empty bands are skipped.  Once the spawn loop is over, the number of
\* workers spawned is the number of non-empty bands, and no worker was given
\* an empty band.
EmptyBandsSkipped ==
  SpawnLoopOver
    => /\ Len(threads) =
            Cardinality({ k \in 1 .. Len(range) - 1 : range[k] < range[k + 1] })
       /\ \A w \in 1 .. Len(threads) : threads[w].start < threads[w].end

\* C6: zero hardware concurrency means one band.  The worker count a driver
\* passes to the partition is at least 1, and the extent is then one band
\* [0, N) given to one worker when the platform reported 0.
ZeroConcurrencyOneBand ==
  (op.threaded /\ pc \in {"spawn", "join", "returned"})
    => /\ nb_thread >= 1
       /\ SpawnLoopOver => Len(threads) >= 1

\* C7: the resize happens before any worker.  In a copy-mode driver out is
\* resized at most once, with no worker spawned yet, and it has been resized
\* exactly once as soon as a worker exists.
ResizeBeforeWorkers ==
  (op.threaded /\ op.mode = "copy")
    => /\ Len(resizes) <= 1
       /\ \A k \in 1 .. Len(resizes) : resizes[k] = 0
       /\ Len(threads) >= 1 => Len(resizes) = 1

\* a copy-mode driver has a running worker, after its one resize
ResizeWitness ==
  /\ op.threaded /\ op.mode = "copy" /\ resizes = << 0 >>
  /\ \E w \in 1 .. Len(threads) : threads[w].st = "run" /\ threads[w].phase = "store"

\* C8: copy-mode non-mutation.  In every state of a copy-mode call, band
\* level or threaded, the input image is what it was before the call.
CopyModeNonMutation == op.mode = "copy" => img = img0

\* a copy-mode call has returned after storing into out
NonMutationWitness ==
  /\ op.mode = "copy" /\ pc = "returned" /\ out # out0

\* C9: band frame condition.  Every store of an activation is at a row
\* (horizontal) or column (vertical) of its own range, and a band-level call
\* leaves every element outside its range with the value it had.
BandFrame ==
  \A e \in DOMAIN writes :
    /\ \A k \in 1 .. Len(writes[e]) : BandCoord(e) \in Band(writes[e][k])
    /\ (~op.threaded /\ Len(threads) = 1 /\ BandCoord(e) \notin Band(1))
         => Dest.data[e] = Dest0.data[e]

\* a band-level call over a range strictly inside the extent has returned
\* after storing
BandFrameWitness ==
  /\ ~op.threaded /\ pc = "returned"
  /\ 0 < threads[1].start /\ threads[1].start < threads[1].end /\ threads[1].end < N
  /\ \E e \in DOMAIN writes : writes[e] # << >>

\* C10: BORDER_COPY result.  Under BORDER_COPY every stored element holds the
\* sum over k of kernel[k] * in[clamp(c - half + k, 0, E-1)] along its line,
\* and an activation that has finished has stored every position of every
\* line of its range, the first and the last included.
BorderCopyResult ==
  border_mgmt = BORDER_COPY
    => /\ \A e \in DOMAIN writes :
            writes[e] # << >>
              => Dest.data[e] =
                   ClampedSum(img0, kernel, op.dir, RowOf(e), ColOf(e), Len(kernel))
       /\ \A w \in 1 .. Len(threads) :
            threads[w].st = "done"
              => \A e \in DOMAIN writes : BandCoord(e) \in Band(w) => writes[e] # << >>

\* the row [1,2,3,4,5] convolved with [1,1,1] left [4,6,9,12,14]
BorderCopyWitness ==
  /\ ~op.threaded /\ pc = "returned" /\ op.dir = "H" /\ border_mgmt = BORDER_COPY
  /\ img0.rows = 1 /\ img0.cols = 5
  /\ \A e \in 0 .. 4 : img0.data[e] = e + 1
  /\ kernel = << 1, 1, 1 >>
  /\ Dest.rows = 1 /\ Dest.cols = 5
  /\ Dest.data[0] = 4 /\ Dest.data[1] = 6 /\ Dest.data[2] = 9
  /\ Dest.data[3] = 12 /\ Dest.data[4] = 14

---------------------------------------------------------------------------
\* position of e along its line, the extent of a line, and half_kernel_width
LineCoord(e) == IF op.dir = "H" THEN ColOf(e) ELSE RowOf(e)
LineExtent == IF op.dir = "H" THEN img0.cols ELSE img0.rows
Half == Len(kernel) \div 2

\* sum over k in 0 .. n-1 of kernel[k] * in[c - half + k], indexed directly
RECURSIVE CropSum(_, _, _, _, _, _)
CropSum(im, kern, d, row, col, n) ==
  IF n = 0 THEN 0
  ELSE LET half == Len(kern) \div 2
           v == IF d = "H" THEN At(im, row, col - half + (n - 1))
                ELSE At(im, row - half + (n - 1), col)
       IN  CropSum(im, kern, d, row, col, n - 1) + K(kern, n - 1) * v

\* C11: BORDER_CROP result and frame.  Under BORDER_CROP only positions c in
\* [half, extent - half) of a line are stored, each holds the sum over k of
\* kernel[k] * in[c - half + k], an activation that has finished has stored
\* each such position of each line of its range exactly once, and every
\* element that was not stored holds the value the destination had before.
BorderCropResult ==
  (border_mgmt = BORDER_CROP /\ pc # "resize")
    => /\ \A e \in DOMAIN writes :
            /\ writes[e] # << >>
                 => /\ LineCoord(e) >= Half
                    /\ LineCoord(e) < LineExtent - Half
                    /\ Dest.data[e] =
                         CropSum(img0, kernel, op.dir, RowOf(e), ColOf(e), Len(kernel))
            /\ writes[e] = << >> => Dest.data[e] = Dest0.data[e]
       /\ \A w \in 1 .. Len(threads) :
            threads[w].st = "done"
              => \A e \in DOMAIN writes :
                   ( /\ BandCoord(e) \in Band(w)
                     /\ LineCoord(e) >= Half /\ LineCoord(e) < LineExtent - Half )
                     => writes[e] = << w >>

\* the row [1,2,3,4,5] cropped with [1,1,1]: 6, 9, 12 at positions 1..3, and
\* positions 0 and 4 as they were
BorderCropWitness ==
  /\ ~op.threaded /\ pc = "returned" /\ op.dir = "H" /\ border_mgmt = BORDER_CROP
  /\ op.mode = "copy"
  /\ img0.rows = 1 /\ img0.cols = 5
  /\ \A e \in 0 .. 4 : img0.data[e] = e + 1
  /\ kernel = << 1, 1, 1 >>
  /\ out.data[1] = 6 /\ out.data[2] = 9 /\ out.data[3] = 12
  /\ out.data[0] = out0.data[0] /\ out.data[4] = out0.data[4]
  /\ writes[0] = << >> /\ writes[4] = << >>

\* C12: identity kernel.  With the kernel of length 1 and weight 1 an
\* in-place call, band level or threaded, under either border policy, leaves
\* every element of the buffer equal to its value before the call.
IdentityKernel ==
  (op.mode = "inplace" /\ kernel = << 1 >>) => img = img0

\* an in-place call with the identity kernel has returned after storing
IdentityWitness ==
  /\ op.mode = "inplace" /\ kernel = << 1 >> /\ pc = "returned"
  /\ \E e \in DOMAIN writes : writes[e] # << >>

\* C13: dimension preservation.  Once a copy-mode driver has resized out,
\* and so when it returns, out has the rows and the columns of the input.
DimensionPreservation ==
  (op.threaded /\ op.mode = "copy" /\ pc # "resize")
    => out.rows = img.rows /\ out.cols = img.cols

\* a copy-mode driver has returned on an image that is not square
DimensionWitness ==
  /\ op.threaded /\ op.mode = "copy" /\ pc = "returned"
  /\ img.rows # img.cols /\ out.rows = img.rows /\ out.cols = img.cols

\* the workers that stored into e
Writers(e) == { writes[e][n] : n \in 1 .. Len(writes[e]) }

\* the elements of line pos of the pass
OnLine(pos) == { e \in DOMAIN reads : BandCoord(e) = pos }

\* C14: in-place read-before-write ordering.  In an in-place call a worker
\* that is about to copy a line has neither read nor stored any element of
\* it; between the copy and the stores it has read every element of the line
\* and stored none, and its working line is what the copy (and the
\* convolution of the padded line) yields from the line's pre-call values;
\* every element a worker stored it had read, and the value stored is the
\* weighted sum of pre-call values (clamped under BORDER_COPY).
ReadBeforeWrite ==
  op.mode = "inplace"
    => /\ \A w \in 1 .. Len(threads) :
            LET a == threads[w] IN
            /\ (a.st = "run" /\ a.phase = "load" /\ a.pos < a.end)
                 => \A e \in OnLine(a.pos) : w \notin reads[e] /\ w \notin Writers(e)
            /\ (a.st = "run" /\ a.phase = "store")
                 => /\ \A e \in OnLine(a.pos) : w \in reads[e] /\ w \notin Writers(e)
                    /\ a.line = LoadLine(op, border_mgmt,
                                         NewLine(LineSize(op, border_mgmt, img0, kernel)),
                                         img0, kernel, a.pos)
       /\ \A e \in DOMAIN writes :
            writes[e] # << >>
              => /\ Writers(e) \subseteq reads[e]
                 /\ img.data[e] =
                      IF border_mgmt = BORDER_COPY
                      THEN ClampedSum(img0, kernel, op.dir, RowOf(e), ColOf(e), Len(kernel))
                      ELSE CropSum(img0, kernel, op.dir, RowOf(e), ColOf(e), Len(kernel))

\* an in-place worker holds a copied line it has not stored yet, with a
\* kernel of width 3, after it stored an earlier line
ReadBeforeWriteWitness ==
  /\ op.mode = "inplace" /\ Len(kernel) = 3
  /\ \E w \in 1 .. Len(threads) :
       /\ threads[w].st = "run" /\ threads[w].phase = "store"
       /\ threads[w].pos > threads[w].start
       /\ \E e \in DOMAIN writes : w \in Writers(e) /\ img.data[e] # img0.data[e]

\* C15: in-place threaded race freedom.  In a threaded in-place call every
\* element a worker read or stored has its row (horizontal) or column
\* (vertical) in that worker's band, and no element is read by one worker
\* and stored by another.
InPlaceRaceFreedom ==
  (op.threaded /\ op.mode = "inplace")
    => \A e \in DOMAIN reads :
         /\ \A r \in reads[e] : BandCoord(e) \in Band(r)
         /\ \A w \in Writers(e) : BandCoord(e) \in Band(w)
         /\ \A r \in reads[e] : \A w \in Writers(e) : r = w

\* two workers of a threaded in-place call with a kernel of width 3 have
\* each read and stored elements, and the call has returned
RaceFreedomWitness ==
  /\ op.threaded /\ op.mode = "inplace" /\ pc = "returned" /\ Len(kernel) = 3
  /\ \E e1, e2 \in DOMAIN reads :
       /\ 1 \in reads[e1] /\ 1 \in Writers(e1)
       /\ 2 \in reads[e2] /\ 2 \in Writers(e2)

\* the plain loop: one column at a time over [col, end_col), each store the
\* sum over k of kernel[k] * in[clamp(row - half + k, 0, rows - 1)][col]
RECURSIVE ScalarRowStore(_, _, _, _, _)
ScalarRowStore(im, kern, row, col, end_col) ==
  IF col >= end_col THEN << >>
  ELSE << << row * im.cols + col, ClampedSum(im, kern, "V", row, col, Len(kern)) >> >>
       \o ScalarRowStore(im, kern, row, col + 1, end_col)

\* C16: the unrolled vertical path equals the scalar loop.  In the copy-mode
\* vertical BORDER_COPY pass over a band [start_col, end_col) of any width,
\* the stores of a row are those of the plain one-column-at-a-time loop with
\* clamped row indices; each element of the band in a finished row has been
\* stored exactly once and holds the scalar loop's value, and the pass stores
\* nothing in a column outside its band or in a row it has not reached.
UnrolledEqualsScalar ==
  (IsRowPass(op, border_mgmt) /\ pc # "resize")
    => \A w \in 1 .. Len(threads) :
         LET a == threads[w] IN
         /\ (a.st = "run" /\ a.pos < img.rows)
              => VRowStore(img, kernel, out, a.pos, a.start, a.end)
                   = ScalarRowStore(img0, kernel, a.pos, a.start, a.end)
         /\ \A e \in DOMAIN writes :
              IF ColOf(e) \in Band(w) /\ RowOf(e) < a.pos
              THEN /\ writes[e] = << w >>
                   /\ out.data[e] =
                        ClampedSum(img0, kernel, "V", RowOf(e), ColOf(e), Len(kernel))
              ELSE w \notin Writers(e)

\* a band of five columns (one unrolled block and one last column) of an
\* image of two rows or more has been convolved with a kernel of width 3
UnrolledWitness ==
  /\ IsRowPass(op, border_mgmt) /\ ~op.threaded /\ pc = "returned"
  /\ Len(kernel) = 3 /\ img.rows >= 2
  /\ threads[1].end - threads[1].start = 5
  /\ \A e \in DOMAIN writes : ColOf(e) \in Band(1) => writes[e] = << 1 >>

\* the copy-mode band function of the same direction
CopyOp == [op EXCEPT !.mode = "copy"]

\* C17: in-place agrees with copy mode.  In a band-level in-place call over
\* [start, end), once the lines [start, pos) are done the buffer equals what
\* the copy-mode band function of the same direction and border policy over
\* [start, pos) leaves in an output that started as the buffer's pre-call
\* contents: the same value wherever copy mode stores, the pre-call value
\* everywhere else.  At the return pos = end.
InPlaceAgreesWithCopy ==
  (~op.threaded /\ op.mode = "inplace" /\ pc \in {"running", "returned"})
    => img = BandResult(CopyOp, border_mgmt, img0, img0, kernel,
                        threads[1].start, threads[1].pos)

\* an in-place vertical BORDER_COPY call (padded line) over two columns or
\* more of an image of two rows or more, kernel of width 3, has returned
\* with the buffer changed
InPlaceAgreesWitness ==
  /\ ~op.threaded /\ op.mode = "inplace" /\ pc = "returned"
  /\ op.dir = "V" /\ border_mgmt = BORDER_COPY /\ Len(kernel) = 3
  /\ img.rows >= 2 /\ threads[1].end - threads[1].start >= 2
  /\ threads[1].pos = threads[1].end
  /\ img # img0

\* << row, col >> addresses an element of im
InImage(rc, im) == rc[1] \in 0 .. im.rows - 1 /\ rc[2] \in 0 .. im.cols - 1

\* every element of the sequence cs addresses an element of im
AllInImage(cs, im) == \A n \in 1 .. Len(cs) : InImage(cs[n], im)

\* C18: index safety.  For an image of at least one row and one column, any
\* odd kernel width and any band inside the extent, the line a band function
\* is about to process uses only indices in bounds: padded-line indices
\* (padding writes, reads of the convolution over extent outputs) in
\* [0, extent + kernel_width), BORDER_CROP line indices in [0, extent), both
\* inside the allocated line; clamped row indices in [0, rows - 1]; and every
\* image access (row, col) has 0 <= row < rows and 0 <= col < cols.
IndexSafety ==
  (img.rows >= 1 /\ img.cols >= 1)
    => \A w \in 1 .. Len(threads) :
         LET a   == threads[w]
             ext == IF op.dir = "H" THEN img.cols ELSE img.rows
             kw  == Len(kernel)
             pad == PadIndices(ext, kw \div 2)
         IN  (a.st = "run" /\ ~BandDone(op, border_mgmt, img, a))
               => IF IsRowPass(op, border_mgmt)
                  THEN /\ \A k \in 1 .. kw :
                            InputIndices(a.pos, kernel, img.rows)[k] \in 0 .. img.rows - 1
                       /\ AllInImage(RowReadCoords(img, kernel, a.pos, a.start, a.end), img)
                       /\ AllInImage(RowWriteCoords(a.pos, a.start, a.end), out)
                  ELSE /\ border_mgmt = BORDER_COPY
                            => /\ \A n \in 1 .. Len(pad) :
                                    pad[n] \in 0 .. ext + kw - 1 /\ pad[n] \in DOMAIN a.line
                               /\ ConvIndices(ext, kw) \subseteq 0 .. ext + kw - 1
                               /\ ConvIndices(ext, kw) \subseteq DOMAIN a.line
                       /\ border_mgmt = BORDER_CROP
                            => /\ CropIndices(ext, kernel) \subseteq 0 .. ext - 1
                               /\ CropIndices(ext, kernel) \subseteq DOMAIN a.line
                       /\ AllInImage(LoadCoords(op, border_mgmt, img, kernel, a.pos), img)
                       /\ AllInImage(StoreCoords(op, border_mgmt, img, kernel, a.pos), Dest)

\* a kernel of width 3 on an image of one row: the vertical copy pass clamps
\* at both ends on a band of five columns, and a padded line is processed
\* on an image whose line is a single element
IndexSafetyWitness ==
  /\ Len(kernel) = 3
  /\ \E w \in 1 .. Len(threads) :
       /\ threads[w].st = "run" /\ ~BandDone(op, border_mgmt, img, threads[w])
       /\ \/ /\ IsRowPass(op, border_mgmt) /\ img.rows = 1
             /\ threads[w].end - threads[w].start = 5
             /\ InputIndices(threads[w].pos, kernel, img.rows) = << 0, 0, 0 >>
          \/ /\ op.dir = "H" /\ border_mgmt = BORDER_COPY /\ img.cols = 1
             /\ threads[w].phase = "store"

\* C19: a threaded call terminates.  Under fair scheduling every threaded
\* call, whatever the extent, the worker count, the kernel and the border
\* policy, reaches its return, and at the return every worker that was
\* spawned has finished: the join loop waited only for spawned workers, and
\* each of them finished.
ThreadedCallTerminates ==
  op.threaded ~> (pc = "returned" /\ \A w \in 1 .. Len(threads) : threads[w].st = "done")

\* a driver that read a worker count of three has joined its three workers
\* and returned, one of them with an empty band
TerminationWitness ==
  /\ op.threaded /\ pc = "returned" /\ nb_thread = 3 /\ Len(threads) = 3
  /\ i = 3
  /\ \A w \in 1 .. 3 : threads[w].st = "done"
  /\ \E w \in 1 .. 3 : threads[w].start = threads[w].end
  /\ \E w \in 1 .. 3 : threads[w].start < threads[w].end

====
